---- MODULE Spec2Model ----
(***************************************************************************)
(* genemap2_parser/script.py: process_line (the row validator, the         *)
(* phenotype micro-parser and the record assembler) and parse_genemap2     *)
(* (the order-preserving parallel map over the lines of the file).         *)
(*                                                                         *)
(* A Python str is modelled as a sequence of one-character strings, so     *)
(* that strip, split, startswith and the two regular expressions are       *)
(* computed character by character.                                        *)
(***************************************************************************)
EXTENDS Integers, Sequences, FiniteSets, TLC

(***************************************************************************)
(* Bounds of the model.                                                    *)
(***************************************************************************)
\* a phenotype field is the concatenation of at most MaxPieces pieces
MaxPieces == 4
\* a raw line has at most MaxFields tab-separated fields
MaxFields == 15
\* a batch (the file) has at most MaxLines lines
MaxLines == 3
\* pool.map cuts the batch into chunks of 1..MaxChunk lines
MaxChunk == 2

(***************************************************************************)
(* Characters and str primitives.                                          *)
(***************************************************************************)
TAB == "\t"
NL == "\n"
None == <<"None">>

\* the characters str.strip() removes and \s matches, among those the
\* lines of the model are made of
IsSpace(c) == c \in {" ", TAB, NL}

\* \d of the regular expressions
IsDigit(c) == c \in {"0", "1", "2", "3", "4", "5", "6", "7", "8", "9"}

\* s[i:j] with 1-based inclusive bounds, empty when j < i
Slice(s, i, j) == IF j < i THEN <<>> ELSE SubSeq(s, i, j)

\* s.startswith(p)
StartsWith(s, p) == Len(s) >= Len(p) /\ SubSeq(s, 1, Len(p)) = p

RECURSIVE LStrip(_)
LStrip(s) ==
    IF s # <<>> /\ IsSpace(Head(s)) THEN LStrip(Tail(s)) ELSE s

RECURSIVE RStrip(_)
RStrip(s) ==
    IF s # <<>> /\ IsSpace(s[Len(s)]) THEN RStrip(SubSeq(s, 1, Len(s) - 1)) ELSE s

\* s.strip(): leading and trailing whitespace removed
Strip(s) == RStrip(LStrip(s))

\* s.split(sep) for a non-empty separator sep: every occurrence cuts,
\* left to right and non-overlapping, empty pieces are kept
RECURSIVE SplitAcc(_, _, _)
SplitAcc(s, sep, cur) ==
    IF s = <<>> THEN <<cur>>
    ELSE IF StartsWith(s, sep)
         THEN <<cur>> \o SplitAcc(SubSeq(s, Len(sep) + 1, Len(s)), sep, <<>>)
         ELSE SplitAcc(Tail(s), sep, Append(cur, Head(s)))

Split(s, sep) == SplitAcc(s, sep, <<>>)

(***************************************************************************)
(* The two regular expressions of process_line, as re.match runs them.     *)
(***************************************************************************)
\* '.' matches every character but the newline
NoNL(s) == \A i \in 1..Len(s) : s[i] # NL

\* '$' at position p (the next character to read): the end of the string,
\* or just before a newline that ends the string
AtEnd(s, p) == p = Len(s) + 1 \/ (p = Len(s) /\ s[p] = NL)

\* ',\s(\d{6})\s\((\d)\)' read from position k + 1 on: 12 characters
PatA(s, k) ==
    /\ k + 12 <= Len(s)
    /\ s[k + 1] = ","
    /\ IsSpace(s[k + 2])
    /\ \A i \in 3..8 : IsDigit(s[k + i])
    /\ IsSpace(s[k + 9])
    /\ s[k + 10] = "("
    /\ IsDigit(s[k + 11])
    /\ s[k + 12] = ")"

\* '\((\d)\)' read from position k + 1 on: 3 characters
PatB(s, k) ==
    /\ k + 3 <= Len(s)
    /\ s[k + 1] = "("
    /\ IsDigit(s[k + 2])
    /\ s[k + 3] = ")"

\* '(|, (.*))$' read from position p on: the empty alternative first,
\* then ', ' and the rest of the string
TailEmpty(s, p) == AtEnd(s, p)

TailList(s, p) ==
    /\ p + 1 <= Len(s)
    /\ s[p] = ","
    /\ s[p + 1] = " "
    /\ \E e \in {Len(s), Len(s) - 1} :
          /\ e >= p + 1
          /\ NoNL(Slice(s, p + 2, e))
          /\ AtEnd(s, e + 1)

\* the group '(.*)' after ', ': greedy, up to the '$'
TailGroup(s, p) ==
    IF NoNL(Slice(s, p + 2, Len(s))) THEN Slice(s, p + 2, Len(s))
    ELSE Slice(s, p + 2, Len(s) - 1)

\* the lengths of group 1 for which the rest of the expression matches
CandA(s) ==
    {k \in 0..Len(s) :
        /\ NoNL(Slice(s, 1, k))
        /\ PatA(s, k)
        /\ (TailEmpty(s, k + 13) \/ TailList(s, k + 13))}

CandB(s) ==
    {k \in 0..Len(s) :
        /\ NoNL(Slice(s, 1, k))
        /\ PatB(s, k)
        /\ (TailEmpty(s, k + 4) \/ TailList(s, k + 4))}

\* a lazy '(.*?)': the shortest group 1 is tried first
Lazy(S) == CHOOSE k \in S : \A j \in S : k <= j

\* the first '(.*)' is greedy: the longest group 1 is tried first
Greedy(S) == CHOOSE k \in S : \A j \in S : j <= k

\* re.match(r'^(.*),\s(\d{6})\s\((\d)\)(|, (.*))$', s): the groups, or no match
MatchA(s) ==
    IF CandA(s) = {} THEN [ok |-> FALSE, g1 |-> <<>>, g2 |-> <<>>, g3 |-> <<>>, g5 |-> None]
    ELSE LET k == Greedy(CandA(s))
         IN  [ok |-> TRUE,
              g1 |-> Slice(s, 1, k),
              g2 |-> SubSeq(s, k + 3, k + 8),
              g3 |-> <<s[k + 11]>>,
              g5 |-> IF TailEmpty(s, k + 13) THEN None ELSE TailGroup(s, k + 13)]

\* re.match(r'^(.*)\((\d)\)(|, (.*))$', s): the groups, or no match
MatchB(s) ==
    IF CandB(s) = {} THEN [ok |-> FALSE, g1 |-> <<>>, g2 |-> <<>>, g4 |-> None]
    ELSE LET k == Greedy(CandB(s))
         IN  [ok |-> TRUE,
              g1 |-> Slice(s, 1, k),
              g2 |-> <<s[k + 2]>>,
              g4 |-> IF TailEmpty(s, k + 4) THEN None ELSE TailGroup(s, k + 4)]

\* the list split on ',' instead of ', '
InheritancesOnComma(g) ==
    IF g = None \/ g = <<>> THEN <<>> ELSE Split(g, <<",">>)

\* matcher.group(n).split(', ') if matcher.group(n) else []
Inheritances(g) ==
    IF g = None \/ g = <<>> THEN <<>> ELSE Split(g, <<",", " ">>)

NoAnnotation == [name |-> <<>>, mim_number |-> None, mapping_key |-> <<>>, inheritance |-> <<>>]

\* the iteration with Grammar B tried before Grammar A
ParseSegmentBFirst(phenotype) ==
    LET seg == Strip(phenotype)
        a == MatchA(seg)
        b == MatchB(seg)
    IN  IF b.ok
        THEN [grammar |-> "B", seg |-> seg,
              ann |-> [name |-> b.g1, mim_number |-> None, mapping_key |-> b.g2,
                       inheritance |-> Inheritances(b.g4)]]
        ELSE IF a.ok
        THEN [grammar |-> "A", seg |-> seg,
              ann |-> [name |-> a.g1, mim_number |-> a.g2, mapping_key |-> a.g3,
                       inheritance |-> Inheritances(a.g5)]]
        ELSE [grammar |-> "none", seg |-> seg, ann |-> NoAnnotation]

\* one iteration of the loop over phenotype_string.split(';'): the segment
\* is stripped, Grammar A is tried, then Grammar B, else the segment is dropped
ParseSegment(phenotype) ==
    LET seg == Strip(phenotype)
        a == MatchA(seg)
        b == MatchB(seg)
    IN  IF a.ok
        THEN [grammar |-> "A", seg |-> seg,
              ann |-> [name |-> a.g1, mim_number |-> a.g2, mapping_key |-> a.g3,
                       inheritance |-> Inheritances(a.g5)]]
        ELSE IF b.ok
        THEN [grammar |-> "B", seg |-> seg,
              ann |-> [name |-> b.g1, mim_number |-> None, mapping_key |-> b.g2,
                       inheritance |-> Inheritances(b.g4)]]
        ELSE [grammar |-> "none", seg |-> seg, ann |-> NoAnnotation]

\* the whole loop: the annotations of the matching segments, in order
RECURSIVE ParsePhenotypes(_)
ParsePhenotypes(segs) ==
    IF segs = <<>> THEN <<>>
    ELSE LET p == ParseSegment(Head(segs))
         IN  (IF p.grammar = "none" THEN <<>> ELSE <<p.ann>>) \o ParsePhenotypes(Tail(segs))

(***************************************************************************)
(* process_line: binding of the 14 fields, the error, the record.          *)
(***************************************************************************)
\* the 14 values bound with the phenotype field last, after mouse
BindPhenotypeLast(v) ==
    [chromosome |-> v[1], genomic_position_start |-> v[2],
     genomic_position_end |-> v[3], cyto_location |-> v[4],
     computed_cyto_location |-> v[5], mim_number |-> v[6],
     gene_symbols |-> v[7], gene_name |-> v[8],
     approved_gene_symbol |-> v[9], entrez_gene_id |-> v[10],
     ensembl_gene_id |-> v[11], comments |-> v[12],
     phenotype_string |-> v[14], mouse |-> v[13]]

\* the tuple assignment of the 14 values of value_list to the 14 names
Bind(v) ==
    [chromosome |-> v[1], genomic_position_start |-> v[2],
     genomic_position_end |-> v[3], cyto_location |-> v[4],
     computed_cyto_location |-> v[5], mim_number |-> v[6],
     gene_symbols |-> v[7], gene_name |-> v[8],
     approved_gene_symbol |-> v[9], entrez_gene_id |-> v[10],
     ensembl_gene_id |-> v[11], comments |-> v[12],
     phenotype_string |-> v[13], mouse |-> v[14]]

Unbound == Bind([i \in 1..14 |-> <<>>])

\* the test left out
PhenotypeNeverMissing(phenotype_string) == FALSE

\* 'if not phenotype_string'
PhenotypeMissing(phenotype_string) == phenotype_string = <<>>

\* f"Unexpected number of columns in line: {line}"
ErrorMessage(l) == <<"Unexpected number of columns in line: ">> \o l

\* the dictionary process_line returns
GeneRecord(b, phens) ==
    [chromosome |-> b.chromosome,
     genomic_position_start |-> b.genomic_position_start,
     genomic_position_end |-> b.genomic_position_end,
     cyto_location |-> b.cyto_location,
     computed_cyto_location |-> b.computed_cyto_location,
     mim_number |-> b.mim_number,
     gene_symbols |-> b.gene_symbols,
     gene_name |-> b.gene_name,
     approved_gene_symbol |-> b.approved_gene_symbol,
     entrez_gene_id |-> b.entrez_gene_id,
     ensembl_gene_id |-> b.ensembl_gene_id,
     comments |-> b.comments,
     mouse |-> b.mouse,
     phenotypes |-> phens]

EmptyRecord == GeneRecord(Unbound, <<>>)

\* the three outcomes of process_line: None, a dictionary, a ValueError
Pending == [kind |-> "pending", rec |-> EmptyRecord, msg |-> <<>>]
ReturnNone == [kind |-> "none", rec |-> EmptyRecord, msg |-> <<>>]
ReturnRecord(r) == [kind |-> "record", rec |-> r, msg |-> <<>>]
RaiseValueError(l) == [kind |-> "error", rec |-> EmptyRecord, msg |-> ErrorMessage(l)]

\* process_line as a function of its argument
ProcessLine(l) ==
    IF StartsWith(l, <<"#">>) \/ Strip(l) = <<>> THEN ReturnNone
    ELSE LET v == Split(Strip(l), <<TAB>>)
         IN  IF Len(v) < 14 THEN ReturnNone
             ELSE IF Len(v) # 14 THEN RaiseValueError(l)
             ELSE LET b == Bind(v)
                  IN  IF PhenotypeMissing(b.phenotype_string) THEN ReturnNone
                      ELSE ReturnRecord(GeneRecord(b,
                               ParsePhenotypes(Split(b.phenotype_string, <<";">>))))

(***************************************************************************)
(* The lines the model feeds to process_line.                              *)
(***************************************************************************)
RECURSIVE Join(_, _)
Join(parts, sep) ==
    IF parts = <<>> THEN <<>>
    ELSE IF Len(parts) = 1 THEN parts[1]
    ELSE parts[1] \o sep \o Join(Tail(parts), sep)

RECURSIVE Concat(_)
Concat(parts) == IF parts = <<>> THEN <<>> ELSE Head(parts) \o Concat(Tail(parts))

Pieces ==
    { <<"N">>,
      <<",", " ", "1", "2", "3", "4", "5", "6", " ", "(", "3", ")">>,
      <<",", " ", "6", "5", "4", "3", "2", "1", " ", "(", "1", ")">>,
      <<"(", "2", ")">>,
      <<",", " ", "A", "D">>,
      <<";">>,
      <<" ">> }

\* the phenotype fields: every concatenation of at most MaxPieces pieces
Phenos == UNION {{Concat(ps) : ps \in [1..n -> Pieces]} : n \in 0..MaxPieces}

SmallPhenos ==
    { <<>>, <<" ">>, <<"N">>, <<"N", "(", "2", ")">> }

Letters == <<"a", "b", "c", "d", "e", "f", "g", "h", "i", "j", "k", "l", "m", "n", "o", "p", "q", "r">>

Structs ==
    [hash : BOOLEAN, n : {1} \cup 13..MaxFields,
     first : {<<"1">>, <<>>, <<" ", "1">>},
     last : {<<"m">>, <<>>, <<"m", " ">>},
     nl : BOOLEAN]

Canonical == [hash |-> FALSE, n |-> 14, first |-> <<"1">>, last |-> <<"m">>, nl |-> TRUE]

\* the raw fields of a line: the first and the last one vary, the field at
\* position 12 (zero-indexed) is ph, the others are distinct letters
RawFields(st, ph) ==
    [i \in 1..st.n |->
        IF i = 13 THEN ph
        ELSE IF i = 1 THEN st.first
        ELSE IF i = st.n THEN st.last
        ELSE <<Letters[i]>>]

MkLine(st, ph) ==
    (IF st.hash THEN <<"#">> ELSE <<>>) \o Join(RawFields(st, ph), <<TAB>>)
        \o (IF st.nl THEN <<NL>> ELSE <<>>)

Lines ==
    {MkLine(st, ph) : st \in Structs, ph \in SmallPhenos}
        \cup {MkLine(Canonical, ph) : ph \in Phenos}

(***************************************************************************)
(* State.                                                                  *)
(***************************************************************************)
VARIABLES
    line,          \* process_line: its argument
    pc,            \* process_line: the source line it is at
    value_list,    \* process_line: line.strip().split('\t')
    bound,         \* process_line: the 14 names bound from value_list
    segs,          \* process_line: the segments the loop has still to visit
    phenotypes,    \* process_line: the list the loop appends to
    trace,         \* history: the segments visited and the grammar each matched
    result,        \* process_line: what it returned or raised
    lines,         \* parse_genemap2: file.readlines()
    ppc,           \* parse_genemap2: the source line it is at
    chunksize,     \* pool.map: the number of lines of a task
    taskq,         \* pool: the tasks no worker has taken yet
    running,       \* pool: the task each worker is running (0: idle)
    outq,          \* pool: the finished tasks the result handler has not stored
    value,         \* pool.map: the result list under construction, or the exception
    success,       \* pool.map: no task has failed so far
    number_left,   \* pool.map: the tasks not stored yet
    stored,        \* history: the tasks in the order the result handler stored them
    outcome        \* parse_genemap2: what it returned or raised

lvars == <<line, pc, value_list, bound, segs, phenotypes, trace, result>>
pvars == <<lines, ppc, chunksize, taskq, running, outq, value, success, number_left, stored, outcome>>
vars == <<line, pc, value_list, bound, segs, phenotypes, trace, result,
          lines, ppc, chunksize, taskq, running, outq, value, success, number_left, stored, outcome>>

(***************************************************************************)
(* process_line, statement by statement.                                   *)
(***************************************************************************)
LineIdle ==
    /\ line = <<>>
    /\ pc = "idle"
    /\ value_list = <<>>
    /\ bound = Unbound
    /\ segs = <<>>
    /\ phenotypes = <<>>
    /\ trace = <<>>
    /\ result = Pending

PoolIdle ==
    /\ lines = <<>>
    /\ ppc = "idle"
    /\ chunksize = 0
    /\ taskq = <<>>
    /\ running = <<>>
    /\ outq = <<>>
    /\ value = <<>>
    /\ success = TRUE
    /\ number_left = 0
    /\ stored = <<>>
    /\ outcome = [kind |-> "pending", records |-> <<>>, msg |-> <<>>]

InitLine ==
    /\ line \in Lines
    /\ pc = "l15"
    /\ value_list = <<>>
    /\ bound = Unbound
    /\ segs = <<>>
    /\ phenotypes = <<>>
    /\ trace = <<>>
    /\ result = Pending
    /\ PoolIdle

\* lines 15-16
PL_Guard ==
    /\ pc = "l15"
    /\ IF StartsWith(line, <<"#">>) \/ Strip(line) = <<>>
       THEN pc' = "done" /\ result' = ReturnNone
       ELSE pc' = "l18" /\ result' = result
    /\ UNCHANGED <<line, value_list, bound, segs, phenotypes, trace>>
    /\ UNCHANGED pvars

\* lines 18-20
PL_Split ==
    /\ pc = "l18"
    /\ value_list' = Split(Strip(line), <<TAB>>)
    /\ IF Len(value_list') < 14
       THEN pc' = "done" /\ result' = ReturnNone
       ELSE pc' = "l22" /\ result' = result
    /\ UNCHANGED <<line, bound, segs, phenotypes, trace>>
    /\ UNCHANGED pvars

\* lines 22-26
PL_Bind ==
    /\ pc = "l22"
    /\ IF Len(value_list) = 14
       THEN pc' = "l28" /\ bound' = Bind(value_list) /\ result' = result
       ELSE pc' = "done" /\ bound' = bound /\ result' = RaiseValueError(line)
    /\ UNCHANGED <<line, value_list, segs, phenotypes, trace>>
    /\ UNCHANGED pvars

\* lines 28-32
PL_CheckPhenotype ==
    /\ pc = "l28"
    /\ IF PhenotypeMissing(bound.phenotype_string)
       THEN pc' = "done" /\ result' = ReturnNone /\ segs' = segs
       ELSE pc' = "l32" /\ result' = result
            /\ segs' = Split(bound.phenotype_string, <<";">>)
    /\ phenotypes' = <<>>
    /\ UNCHANGED <<line, value_list, bound, trace>>
    /\ UNCHANGED pvars

\* the iteration with 'break' in place of 'continue'
PL_SegmentBreak ==
    /\ pc = "l32"
    /\ segs # <<>>
    /\ LET p == ParseSegment(Head(segs))
       IN  /\ trace' = Append(trace, p)
           /\ phenotypes' = IF p.grammar = "none" THEN phenotypes
                            ELSE Append(phenotypes, p.ann)
           /\ segs' = IF p.grammar = "none" THEN <<>> ELSE Tail(segs)
    /\ UNCHANGED <<line, pc, value_list, bound, result>>
    /\ UNCHANGED pvars

\* lines 32-56, one iteration
PL_Segment ==
    /\ pc = "l32"
    /\ segs # <<>>
    /\ LET p == ParseSegment(Head(segs))
       IN  /\ trace' = Append(trace, p)
           /\ phenotypes' = IF p.grammar = "none" THEN phenotypes
                            ELSE Append(phenotypes, p.ann)
    /\ segs' = Tail(segs)
    /\ UNCHANGED <<line, pc, value_list, bound, result>>
    /\ UNCHANGED pvars

\* lines 58-73
PL_Return ==
    /\ pc = "l32"
    /\ segs = <<>>
    /\ pc' = "done"
    /\ result' = ReturnRecord(GeneRecord(bound, phenotypes))
    /\ UNCHANGED <<line, value_list, bound, segs, phenotypes, trace>>
    /\ UNCHANGED pvars

NextLine ==
    \/ PL_Guard
    \/ PL_Split
    \/ PL_Bind
    \/ PL_CheckPhenotype
    \/ PL_Segment
    \/ PL_Return

SpecLine == InitLine /\ [][NextLine]_vars

\* the statements compute the function
StepsAgree == pc = "done" => result = ProcessLine(line)

(***************************************************************************)
(* parse_genemap2: pool.map(process_line, lines) and the final filter.     *)
(***************************************************************************)
\* the worker processes of multiprocessing.Pool()
NumWorkers == 2
Workers == 1..NumWorkers

\* the kinds of line of a batch: two rows with a record, a comment, a blank
\* line, a row of 15 fields
BatchLines ==
    { <<NL>>,
      MkLine(Canonical, <<"N", "(", "2", ")">>),
      MkLine([Canonical EXCEPT !.first = <<"2">>],
             <<"N", ",", " ", "1", "2", "3", "4", "5", "6", " ", "(", "3", ")">>),
      MkLine([Canonical EXCEPT !.hash = TRUE], <<"N">>),
      MkLine([Canonical EXCEPT !.n = 15], <<"N", "(", "2", ")">>) }

Batches == UNION {[1..n -> BatchLines] : n \in 0..MaxLines}

Min(a, b) == IF a < b THEN a ELSE b

\* the number of tasks pool.map cuts n lines into
NumChunks(n, cs) == (n + cs - 1) \div cs

\* the lines of task i (tasks are numbered from 1)
Chunk(ls, cs, i) == Slice(ls, (i - 1) * cs + 1, Min(i * cs, Len(ls)))

\* a worker runs list(map(process_line, chunk)): the results of the chunk,
\* or the first exception process_line raises in it
RECURSIVE MapStar(_)
MapStar(chunk) ==
    IF chunk = <<>> THEN [ok |-> TRUE, res |-> <<>>]
    ELSE LET r == ProcessLine(Head(chunk))
         IN  IF r.kind = "error" THEN [ok |-> FALSE, res |-> <<r>>]
             ELSE LET rest == MapStar(Tail(chunk))
                  IN  IF rest.ok THEN [ok |-> TRUE, res |-> <<r>> \o rest.res]
                      ELSE rest

\* the slice taken at i instead of i*chunksize
StoreChunkUnscaled(val, cs, i, res) ==
    [j \in 1..Len(val) |->
        IF (i - 1) < j /\ j <= (i - 1) + Len(res)
        THEN res[j - (i - 1)] ELSE val[j]]

\* self._value[i*chunksize:(i+1)*chunksize] = result
StoreChunk(val, cs, i, res) ==
    [j \in 1..Len(val) |->
        IF (i - 1) * cs < j /\ j <= (i - 1) * cs + Len(res)
        THEN res[j - (i - 1) * cs] ELSE val[j]]

\* [entry for entry in parsed_data if entry]
RECURSIVE Truthy(_)
Truthy(parsed_data) ==
    IF parsed_data = <<>> THEN <<>>
    ELSE (IF Head(parsed_data).kind = "record" THEN <<Head(parsed_data).rec>> ELSE <<>>)
            \o Truthy(Tail(parsed_data))

NoOutcome == [kind |-> "pending", records |-> <<>>, msg |-> <<>>]

InitPool ==
    /\ LineIdle
    /\ lines \in Batches
    /\ ppc = "l90"
    /\ chunksize = 0
    /\ taskq = <<>>
    /\ running = [w \in Workers |-> 0]
    /\ outq = <<>>
    /\ value = <<>>
    /\ success = TRUE
    /\ number_left = 0
    /\ stored = <<>>
    /\ outcome = NoOutcome

\* line 91, the call: the batch is cut into tasks, all of them queued; the
\* chunk size is len(lines) / (4 * processes) rounded up, any value here
PM_Map ==
    /\ ppc = "l90"
    /\ \E cs \in 1..MaxChunk :
          /\ chunksize' = cs
          /\ taskq' = [i \in 1..NumChunks(Len(lines), cs) |-> i]
          /\ number_left' = NumChunks(Len(lines), cs)
    /\ value' = [j \in 1..Len(lines) |-> ReturnNone]
    /\ success' = TRUE
    /\ ppc' = "l91"
    /\ UNCHANGED <<lines, running, outq, stored, outcome>>
    /\ UNCHANGED lvars

\* an idle worker takes the oldest task
W_Take(w) ==
    /\ ppc = "l91"
    /\ running[w] = 0
    /\ taskq # <<>>
    /\ running' = [running EXCEPT ![w] = Head(taskq)]
    /\ taskq' = Tail(taskq)
    /\ UNCHANGED <<lines, ppc, chunksize, outq, value, success, number_left, stored, outcome>>
    /\ UNCHANGED lvars

\* what a worker sends for task i: (i, (success, result))
TaskResult(i, r) == [i |-> i, ok |-> r.ok, res |-> r.res]

\* a worker finishes its task and sends the result, or the exception
W_Finish(w) ==
    /\ ppc = "l91"
    /\ running[w] # 0
    /\ outq' = Append(outq, TaskResult(running[w], MapStar(Chunk(lines, chunksize, running[w]))))
    /\ running' = [running EXCEPT ![w] = 0]
    /\ UNCHANGED <<lines, ppc, chunksize, taskq, value, success, number_left, stored, outcome>>
    /\ UNCHANGED lvars

\* the result handler dropping the exception of a failed task
H_SetIgnoreFailure ==
    /\ ppc = "l91"
    /\ outq # <<>>
    /\ LET m == Head(outq)
       IN  /\ number_left' = number_left - 1
           /\ IF m.ok /\ success
              THEN value' = StoreChunk(value, chunksize, m.i, m.res) /\ success' = success
              ELSE value' = value /\ success' = success
    /\ outq' = Tail(outq)
    /\ stored' = Append(stored, Head(outq).i)
    /\ UNCHANGED <<lines, ppc, chunksize, taskq, running, outcome>>
    /\ UNCHANGED lvars

\* the result handler stores a finished task: the results in their slots,
\* or the first exception in place of the list
H_Set ==
    /\ ppc = "l91"
    /\ outq # <<>>
    /\ LET m == Head(outq)
       IN  /\ number_left' = number_left - 1
           /\ IF m.ok /\ success
              THEN value' = StoreChunk(value, chunksize, m.i, m.res) /\ success' = success
              ELSE IF ~m.ok /\ success
              THEN value' = m.res /\ success' = FALSE
              ELSE value' = value /\ success' = success
    /\ outq' = Tail(outq)
    /\ stored' = Append(stored, Head(outq).i)
    /\ UNCHANGED <<lines, ppc, chunksize, taskq, running, outcome>>
    /\ UNCHANGED lvars

\* lines 91-93: every task is stored; map returns the list or raises the
\* exception, and parse_genemap2 returns the entries that are not None
PM_Return ==
    /\ ppc = "l91"
    /\ number_left = 0
    /\ outcome' = IF success
                  THEN [kind |-> "returned", records |-> Truthy(value), msg |-> <<>>]
                  ELSE [kind |-> "raised", records |-> <<>>, msg |-> value[1].msg]
    /\ ppc' = "done"
    /\ UNCHANGED <<lines, chunksize, taskq, running, outq, value, success, number_left, stored>>
    /\ UNCHANGED lvars

NextPool ==
    \/ PM_Map
    \/ \E w \in Workers : W_Take(w)
    \/ \E w \in Workers : W_Finish(w)
    \/ H_Set
    \/ PM_Return

SpecPool == InitPool /\ [][NextPool]_vars

(***************************************************************************)
(* Properties of parse_genemap2.                                           *)
(***************************************************************************)
\* process_line raises on some line of the batch
HasFatal(ls) == \E i \in 1..Len(ls) : ProcessLine(ls[i]).kind = "error"

\* process_line applied to the lines one after the other, from the first to
\* the last, the lines without a record dropped
RECURSIVE Sequential(_)
Sequential(ls) ==
    IF ls = <<>> THEN <<>>
    ELSE LET r == ProcessLine(ls[1])
         IN  IF r.kind = "record" THEN <<r.rec>> \o Sequential(Tail(ls))
             ELSE Sequential(Tail(ls))

\* C1: when no line of the batch raises, parse_genemap2 returns, whatever
\* the chunks, the workers that ran them and the order they finished in, the
\* records of a sequential left-to-right pass over the lines
C1_OrderPreserved ==
    (ppc = "done" /\ ~HasFatal(lines))
        => (outcome.kind = "returned" /\ outcome.records = Sequential(lines))

\* a batch of a record, a skipped line and another record, the task of the
\* last line stored before the task of the first one
C1_Witness ==
    /\ ppc = "done"
    /\ outcome.kind = "returned"
    /\ Len(lines) = 3
    /\ Len(outcome.records) = 2
    /\ outcome.records[1] # outcome.records[2]
    /\ ProcessLine(lines[2]).kind = "none"
    /\ chunksize = 1
    /\ stored = <<2, 3, 1>>

\* C2: when process_line raises on a line of the batch, parse_genemap2
\* never returns a list, partial or not: it ends by raising the ValueError
\* of one of the offending lines, and no record comes out
C2_FatalAbortsBatch ==
    HasFatal(lines)
        => /\ outcome.kind # "returned"
           /\ outcome.records = <<>>
           /\ ppc = "done"
                => /\ outcome.kind = "raised"
                   /\ \E i \in 1..Len(lines) :
                         /\ ProcessLine(lines[i]).kind = "error"
                         /\ outcome.msg = ErrorMessage(lines[i])

\* the offending line is the last of three, the two others have records and
\* were stored before it
C2_Witness ==
    /\ ppc = "done"
    /\ outcome.kind = "raised"
    /\ Len(lines) = 3
    /\ ProcessLine(lines[1]).kind = "record"
    /\ ProcessLine(lines[2]).kind = "record"
    /\ ProcessLine(lines[3]).kind = "error"
    /\ chunksize = 1
    /\ stored = <<1, 2, 3>>

(***************************************************************************)
(* Properties of process_line.                                             *)
(***************************************************************************)
\* the line without its line terminator
Chomp(l) == IF l # <<>> /\ l[Len(l)] = NL THEN SubSeq(l, 1, Len(l) - 1) ELSE l

\* the tab-separated fields of the line as it stands in the file
FieldsOf(l) == Split(Chomp(l), <<TAB>>)

\* text t occurs in text m
Contains(m, t) == \E i \in 1..(Len(m) - Len(t) + 1) : SubSeq(m, i, i + Len(t) - 1) = t

\* process_line has bound the 14 names
IsBound == pc \in {"l28", "l32", "done"} /\ Len(value_list) = 14

\* C3: a line that does not begin with '#' and has more than 14
\* tab-separated fields, empty or not, makes process_line raise the
\* ValueError that quotes the line
C3_OverflowRaises ==
    (pc = "done" /\ ~StartsWith(line, <<"#">>) /\ Len(FieldsOf(line)) > 14)
        => (result.kind = "error" /\ Contains(result.msg, line))

C5_ExactRowGivesRecord ==
    (pc = "done" /\ ~StartsWith(line, <<"#">>) /\ Len(FieldsOf(line)) = 14
        /\ Strip(FieldsOf(line)[13]) # <<>>)
        => /\ result.kind = "record"
           /\ LET f == FieldsOf(line)
                  r == result.rec
              IN  /\ r.chromosome = f[1]
                  /\ r.genomic_position_start = f[2]
                  /\ r.genomic_position_end = f[3]
                  /\ r.cyto_location = f[4]
                  /\ r.computed_cyto_location = f[5]
                  /\ r.mim_number = f[6]
                  /\ r.gene_symbols = f[7]
                  /\ r.gene_name = f[8]
                  /\ r.approved_gene_symbol = f[9]
                  /\ r.entrez_gene_id = f[10]
                  /\ r.ensembl_gene_id = f[11]
                  /\ r.comments = f[12]
                  /\ r.mouse = f[14]

Comma == <<",", " ">>

\* ', NNNNNN (n)' stands in seg right after its first k characters
Occurrence(seg, k) ==
    /\ k + 12 <= Len(seg)
    /\ seg[k + 1] = ","
    /\ seg[k + 2] = " "
    /\ \A i \in 3..8 : IsDigit(seg[k + i])
    /\ seg[k + 9] = " "
    /\ seg[k + 10] = "("
    /\ IsDigit(seg[k + 11])
    /\ seg[k + 12] = ")"

\* '(n)' stands in seg right after its first k characters
KeyOccurrence(seg, k) ==
    /\ k + 3 <= Len(seg)
    /\ seg[k + 1] = "("
    /\ IsDigit(seg[k + 2])
    /\ seg[k + 3] = ")"

\* seg ends after its first p characters, or goes on with ', '
EndsOrList(seg, p) == p = Len(seg) \/ (p + 2 <= Len(seg) /\ SubSeq(seg, p + 1, p + 2) = Comma)

\* Grammar A: NAME, MIMNUM (KEY)[, INHERITANCE_LIST]
InGrammarA(seg) == \E k \in 0..Len(seg) : Occurrence(seg, k) /\ EndsOrList(seg, k + 12)

\* Grammar B: NAME(KEY)[, INHERITANCE_LIST]
InGrammarB(seg) == \E k \in 0..Len(seg) : KeyOccurrence(seg, k) /\ EndsOrList(seg, k + 3)

InGrammar(seg) == InGrammarA(seg) \/ InGrammarB(seg)

\* the segment an annotation stands for
Render(a) ==
    a.name
      \o (IF a.mim_number = None THEN <<"(">> ELSE Comma \o a.mim_number \o <<" ", "(">>)
      \o a.mapping_key \o <<")">>
      \o (IF a.inheritance = <<>> THEN <<>> ELSE Comma \o Join(a.inheritance, Comma))

\* the ';'-separated segments of the phenotype field, each trimmed
TrimmedSegments(ps) ==
    [i \in 1..Len(Split(ps, <<";">>)) |-> Strip(Split(ps, <<";">>)[i])]

Largest(S) == CHOOSE k \in S : \A j \in S : j <= k

\* C7: the phenotypes of a record are the annotations of the trimmed
\* segments that match Grammar A or Grammar B, one for each and in their
\* order; a segment matching neither gives nothing and stops nothing
C7_PhenotypesInOrder ==
    (pc = "done" /\ IsBound /\ bound.phenotype_string # <<>>)
        => /\ result.kind = "record"
           /\ LET all == TrimmedSegments(bound.phenotype_string)
                  matching == SelectSeq(all, InGrammar)
                  phens == result.rec.phenotypes
              IN  /\ Len(trace) = Len(all)
                  /\ Len(phens) = Len(matching)
                  /\ \A i \in 1..Len(phens) : Render(phens[i]) = matching[i]

\* a segment that matches no grammar, then one that matches
C7_Witness ==
    /\ pc = "done"
    /\ result.kind = "record"
    /\ Len(trace) >= 2
    /\ trace[1].grammar = "none"
    /\ trace[1].seg # <<>>
    /\ trace[2].grammar # "none"
    /\ Len(result.rec.phenotypes) = 1

\* C8 as stated: under Grammar A the name is the text before the right-most
\* ', NNNNNN (n)' of the segment, whose digits are mim_number and mapping_key
C8_RightMostOccurrence ==
    \A i \in 1..Len(trace) :
        trace[i].grammar = "A" =>
            LET seg == trace[i].seg
                k == Largest({j \in 0..Len(seg) : Occurrence(seg, j)})
            IN  /\ trace[i].ann.name = Slice(seg, 1, k)
                /\ trace[i].ann.mim_number = SubSeq(seg, k + 3, k + 8)
                /\ trace[i].ann.mapping_key = <<seg[k + 11]>>

\* C8: under Grammar A the name is the text before the right-most
\* ', NNNNNN (n)' that ends the segment or is followed by ', ', and
\* mim_number and mapping_key are the digits of that occurrence
C8_RightMostEligibleOccurrence ==
    \A i \in 1..Len(trace) :
        trace[i].grammar = "A" =>
            LET seg == trace[i].seg
                k == Largest({j \in 0..Len(seg) :
                                 Occurrence(seg, j) /\ EndsOrList(seg, j + 12)})
            IN  /\ trace[i].ann.name = Slice(seg, 1, k)
                /\ trace[i].ann.mim_number = SubSeq(seg, k + 3, k + 8)
                /\ trace[i].ann.mapping_key = <<seg[k + 11]>>

\* a segment with two occurrences, the name running up to the second
C8_Witness ==
    /\ pc = "done"
    /\ \E i \in 1..Len(trace) :
          /\ trace[i].grammar = "A"
          /\ Cardinality({j \in 0..Len(trace[i].seg) :
                Occurrence(trace[i].seg, j) /\ EndsOrList(trace[i].seg, j + 12)}) = 2
          /\ \E j \in 0..Len(trace[i].seg) :
                Occurrence(trace[i].seg, j) /\ j < Len(trace[i].ann.name)

\* C9: Grammar A is tried first and Grammar B only when A does not match the
\* segment; mapping_key is one digit, mim_number is six digits under
\* Grammar A and None exactly under Grammar B
C9_GrammarPriority ==
    \A i \in 1..Len(trace) :
        LET t == trace[i]
        IN  /\ (t.grammar = "A") = InGrammarA(t.seg)
            /\ (t.grammar = "B") = (~InGrammarA(t.seg) /\ InGrammarB(t.seg))
            /\ t.grammar # "none" =>
                 /\ Len(t.ann.mapping_key) = 1
                 /\ IsDigit(t.ann.mapping_key[1])
                 /\ (t.ann.mim_number = None) = (t.grammar = "B")
                 /\ t.grammar = "A" =>
                      /\ Len(t.ann.mim_number) = 6
                      /\ \A d \in 1..6 : IsDigit(t.ann.mim_number[d])

\* a Grammar B annotation, and a Grammar A annotation of a segment that
\* Grammar B would match too
C9_Witness ==
    /\ pc = "done"
    /\ \E i, j \in 1..Len(trace) :
          /\ trace[i].grammar = "B"
          /\ trace[i].ann.mim_number = None
          /\ trace[j].grammar = "A"
          /\ InGrammarB(trace[j].seg)

\* the text of the segment after the '(key)' of its annotation
Trailing(t) ==
    Slice(t.seg, Len(t.ann.name) + (IF t.grammar = "A" THEN 12 ELSE 3) + 1, Len(t.seg))

\* C10: inheritance is the text after '(key), ' cut at every ', ':
\* joined with ', ' its elements give that text back, none of them holds a
\* ', ', and it is empty exactly when the segment ends right after '(key)'
C10_InheritanceSplit ==
    \A i \in 1..Len(trace) :
        trace[i].grammar # "none" =>
            LET t == trace[i]
                inh == t.ann.inheritance
            IN  /\ (inh = <<>>) = (Trailing(t) = <<>>)
                /\ inh # <<>> =>
                     /\ Trailing(t) = Comma \o Join(inh, Comma)
                     /\ \A e \in 1..Len(inh) : ~Contains(inh[e], Comma)

\* an inheritance list of two modes
C10_Witness ==
    /\ pc = "done"
    /\ \E i \in 1..Len(trace) :
          /\ trace[i].grammar # "none"
          /\ Len(trace[i].ann.inheritance) = 2
          /\ trace[i].ann.inheritance[1] # <<>>

====
